---- MODULE Spec2Model ----
(***************************************************************************)
(* Model of the latest-version tracker of clippy_lint_test (src/lib.rs):   *)
(* MainVersion, PreVersion, Version, LatestVersions::push and              *)
(* LatestVersions::iter_ids.                                               *)
(*                                                                         *)
(* Rust's Option<T> is modelled as a sequence of length at most one:       *)
(* <<>> is None and <<x>> is Some(x).                                      *)
(*                                                                         *)
(* stable, pre and pre_by_stream are the fields of one LatestVersions.     *)
(* pushed_stable and npush are history variables, written under SpecHist   *)
(* only: the stable versions pushed so far, in order, and the number of    *)
(* pushes.  group_pushed is a history variable written under SpecGroup     *)
(* only: the pre-releases of the current group pushed since pre took its   *)
(* value.  ids is the sequence the last iter_ids call collected, present   *)
(* until the next push (SpecQuery).  pieces, input and parsed belong to    *)
(* the parsers (SpecParse, SpecCrateId): the parts the input string is     *)
(* put together from, the string, and the result once the parser ran.      *)
(* twin is a second LatestVersions that receives every push with its build *)
(* removed (SpecTwin).  discarded is a history variable written under      *)
(* SpecDiscard only: the main versions pre held and lost.  pushed is a     *)
(* history variable written under SpecBag only: the bag of the versions    *)
(* pushed.  rows, result and panicked belong to read_versions (SpecRows):  *)
(* the records read so far, the HashMap built from them, and whether an    *)
(* expect() has ended the run.                                             *)
(* The remaining variables belong to main and check_crate of src/main.rs   *)
(* (SpecCheck): crates_done is the number of crates the loop of main has   *)
(* finished, pc is "main" between crates, "loop" inside the loop of        *)
(* check_crate and "done" once the report summary is written;              *)
(* failed_parse_manifest and multiple_crates are the flags of check_crate, *)
(* calls counts the compile_crate calls for the current crate,             *)
(* lint_counters is the map of main, report lists the warning counts       *)
(* written to the report, outcome is the RunResult of the last              *)
(* compile_crate call for the current crate (its tag and its message),     *)
(* output is what check_crate returned for the crate main is handling, and *)
(* summary is the map of counters the summary wrote.                       *)
(***************************************************************************)
EXTENDS Integers, Sequences, FiniteSets, Bags, TLC

VARIABLES stable, pre, pre_by_stream, pushed_stable, npush, group_pushed, ids,
          pieces, input, parsed, twin, discarded, pushed, rows, result, panicked,
          crates_done, pc, failed_parse_manifest, multiple_crates, calls,
          lint_counters, report, outcome, output, summary

vars == <<stable, pre, pre_by_stream, pushed_stable, npush, group_pushed, ids,
          pieces, input, parsed, twin, discarded, pushed, rows, result, panicked,
          crates_done, pc, failed_parse_manifest, multiple_crates, calls,
          lint_counters, report, outcome, output, summary>>

\* the variables each specification leaves alone
histVars == <<pushed_stable, npush>>
groupVars == <<group_pushed>>
queryVars == <<ids>>
parseVars == <<pieces, input, parsed>>
trackerVars == <<stable, pre, pre_by_stream>>
twinVars == <<twin>>
discardVars == <<discarded>>
bagVars == <<pushed>>
rowVars == <<rows, result, panicked>>
checkVars == <<crates_done, pc, failed_parse_manifest, multiple_crates, calls,
               lint_counters, report, outcome, output, summary>>

----------------------------------------------------------------------------
(* Bounds of the model.                                                    *)

\* the main versions are those with major + minor + patch <= MaxPartSum
MaxPartSum == 1
\* the pre-release number ranges over 0..MaxNumber
MaxNumber == 1
\* pushes per behaviour of the history-recording specification
MaxPushes == 3
\* leading zeros a round trip may remove from one number
MaxZeros == 1
\* the number of pushes whose orders are compared (SpecBag)
MaxPermuted == 2
\* the number of records read_versions reads (SpecRows)
MaxRows == 3
\* the number of crates main checks (SpecCheck)
MaxCrates == 1
\* the number of messages in the output of one cargo run (SpecCheck)
MaxMessages == 2

\* pre-release stream names and build strings
Streams == {"beta", "rc"}
\* the lints given on the command line, as main names them
Lints == {"clippy::a"}
Builds == {"build.1"}

----------------------------------------------------------------------------
(* Option<T>                                                               *)

None == <<>>
Some(x) == <<x>>
IsSome(o) == Len(o) = 1
IsNone(o) == Len(o) = 0
Unwrap(o) == o[1]
OptionOf(S) == {None} \cup {Some(x) : x \in S}

----------------------------------------------------------------------------
(* Data types                                                              *)

MainVersion ==
    {m \in [major : 0..MaxPartSum, minor : 0..MaxPartSum, patch : 0..MaxPartSum] :
        m.major + m.minor + m.patch <= MaxPartSum}

PreVersion == [stream : Streams, version : 0..MaxNumber]

Version == [version : MainVersion, pre : OptionOf(PreVersion), build : OptionOf(Builds)]

\* derived Ord of MainVersion: lexicographic on (major, minor, patch)
MainCmp(a, b) ==
    IF a.major # b.major THEN (IF a.major < b.major THEN "Less" ELSE "Greater")
    ELSE IF a.minor # b.minor THEN (IF a.minor < b.minor THEN "Less" ELSE "Greater")
    ELSE IF a.patch # b.patch THEN (IF a.patch < b.patch THEN "Less" ELSE "Greater")
    ELSE "Equal"

MainGe(a, b) == MainCmp(a, b) \in {"Greater", "Equal"}
MainGt(a, b) == MainCmp(a, b) = "Greater"
MainLe(a, b) == MainCmp(a, b) \in {"Less", "Equal"}
MainLt(a, b) == MainCmp(a, b) = "Less"

----------------------------------------------------------------------------
(* LatestVersions: the tracker is the record [stable, pre, pre_by_stream]. *)

\* LatestVersions::default()
Default == [stable |-> None, pre |-> None, pre_by_stream |-> <<>>]

\* an element of pre_by_stream: (PreVersion<String>, Option<String>)
Entry(p, build) == [pre |-> p, build |-> build]

\* as StableIsNewer, with the operands of >= exchanged
StableIsNewer_Swapped(self, arg) ==
    IF IsSome(self.stable) THEN MainGe(arg.version, Unwrap(self.stable).version) ELSE FALSE

\* as StableIsNewer, with > in place of >=
StableIsNewer_Strict(self, arg) ==
    IF IsSome(self.stable) THEN MainGt(Unwrap(self.stable).version, arg.version) ELSE FALSE

\* as StableIsNewer, never returning early
StableIsNewer_Never(self, arg) == FALSE

\* push, lines 146-153: the current stable version is >= the incoming one
StableIsNewer(self, arg) ==
    IF IsSome(self.stable) THEN MainGe(Unwrap(self.stable).version, arg.version) ELSE FALSE

\* as PreOrdering, taking an older group for a newer one
PreOrdering_LessAsGreater(self, arg) ==
    IF IsSome(self.pre)
    THEN (IF MainCmp(arg.version, Unwrap(self.pre)) = "Equal" THEN "Equal" ELSE "Greater")
    ELSE "Greater"

\* push, line 156: self.pre.map_or(Ordering::Greater, |v| arg.version.cmp(&v))
PreOrdering(self, arg) ==
    IF IsSome(self.pre) THEN MainCmp(arg.version, Unwrap(self.pre)) ELSE "Greater"

\* as PushNewGroup, without the clear() of line 160
PushNewGroup_NoClear(self, arg) ==
    [self EXCEPT !.pre = Some(arg.version),
                 !.pre_by_stream = Append(@, Entry(Unwrap(arg.pre), arg.build))]

\* push, lines 158-163: a newer pre-release group replaces the current one
PushNewGroup(self, arg) ==
    [self EXCEPT !.pre = Some(arg.version),
                 !.pre_by_stream = <<Entry(Unwrap(arg.pre), arg.build)>>]

\* as FindStream, looking at the first entry only (first() for find())
FindStream_FirstOnly(list, stream) ==
    IF Len(list) > 0 /\ list[1].pre.stream = stream THEN 1 ELSE 0

\* as FindStream, with a predicate that matches no entry
FindStream_NoMatch(list, stream) == 0

\* push, lines 166-169: position of the first entry of the stream, 0 if none
FindStream(list, stream) ==
    IF \E i \in 1..Len(list) : list[i].pre.stream = stream
    THEN CHOOSE i \in 1..Len(list) :
            /\ list[i].pre.stream = stream
            /\ \A j \in 1..(i - 1) : list[j].pre.stream # stream
    ELSE 0

\* as ReplacesEntry, keeping an entry that has a build string
ReplacesEntry_UnlessBuilt(arg_pre, entry) ==
    arg_pre.version > entry.pre.version /\ IsNone(entry.build)

\* as ReplacesEntry, the last number pushed replacing any other
ReplacesEntry_Always(arg_pre, entry) == arg_pre.version # entry.pre.version

\* as ReplacesEntry, with < in place of >
ReplacesEntry_Reversed(arg_pre, entry) == arg_pre.version < entry.pre.version

\* as ReplacesEntry, with >= in place of >
ReplacesEntry_OrEqual(arg_pre, entry) == arg_pre.version >= entry.pre.version

\* push, line 171: the incoming number replaces the entry's
ReplacesEntry(arg_pre, entry) == arg_pre.version > entry.pre.version

\* push, lines 172-173: the entry takes the incoming number and build
ReplaceEntry(entry, arg_pre, build) ==
    [entry EXCEPT !.pre.version = arg_pre.version, !.build = build]

\* as AppendEntry, clearing the list first as lines 160-162 do
AppendEntry_Reset(list, arg_pre, build) == <<Entry(arg_pre, build)>>

\* as AppendEntry, inserting at the front
AppendEntry_Front(list, arg_pre, build) == <<Entry(arg_pre, build)>> \o list

\* push, lines 176-177: the list gains an entry for the incoming stream
AppendEntry(list, arg_pre, build) == Append(list, Entry(arg_pre, build))

\* push, lines 164-179: same group; keep the newest number of each stream
PushSameGroup(self, arg) ==
    LET arg_pre == Unwrap(arg.pre)
        i == FindStream(self.pre_by_stream, arg_pre.stream)
    IN  IF i # 0
        THEN IF ReplacesEntry(arg_pre, self.pre_by_stream[i])
             THEN [self EXCEPT !.pre_by_stream[i] = ReplaceEntry(@, arg_pre, arg.build)]
             ELSE self
        ELSE [self EXCEPT !.pre_by_stream = AppendEntry(@, arg_pre, arg.build)]

\* as SubsumesGroup, every stable release clearing the group
SubsumesGroup_Always(self, arg) == IsSome(self.pre)

\* as SubsumesGroup, no stable release clearing the group
SubsumesGroup_Never(self, arg) == FALSE

\* as SubsumesGroup, with > in place of >=
SubsumesGroup_Strict(self, arg) ==
    IF IsSome(self.pre) THEN MainGt(arg.version, Unwrap(self.pre)) ELSE FALSE

\* as SubsumesGroup, with the operands of >= exchanged
SubsumesGroup_Swapped(self, arg) ==
    IF IsSome(self.pre) THEN MainGe(Unwrap(self.pre), arg.version) ELSE FALSE

\* push, line 186: the stable release reaches the pre-release group
SubsumesGroup(self, arg) ==
    IF IsSome(self.pre) THEN MainGe(arg.version, Unwrap(self.pre)) ELSE FALSE

\* as PushStable, clearing pre and leaving pre_by_stream as it is
PushStable_KeepList(self, arg) ==
    LET s == [self EXCEPT !.stable = Some([version |-> arg.version, build |-> arg.build])]
    IN  IF SubsumesGroup(self, arg)
        THEN [s EXCEPT !.pre = None]
        ELSE s

\* push, lines 183-190: a stable release
PushStable(self, arg) ==
    LET s == [self EXCEPT !.stable = Some([version |-> arg.version, build |-> arg.build])]
    IN  IF SubsumesGroup(self, arg)
        THEN [s EXCEPT !.pre = None, !.pre_by_stream = <<>>]
        ELSE s

\* LatestVersions::push
PushOp(self, arg) ==
    IF StableIsNewer(self, arg) THEN self
    ELSE IF IsSome(arg.pre)
         THEN CASE PreOrdering(self, arg) = "Greater" -> PushNewGroup(self, arg)
                [] PreOrdering(self, arg) = "Equal" -> PushSameGroup(self, arg)
                [] PreOrdering(self, arg) = "Less" -> self
         ELSE PushStable(self, arg)

\* CrateId
CrateId(name, version) == [name |-> name, version |-> version]

\* as IterIds, leaving out the build of the pre-release identifiers
IterIds_NoBuild(self, name) ==
    LET stableIds ==
            IF IsSome(self.stable)
            THEN <<CrateId(name, [version |-> Unwrap(self.stable).version,
                                    pre |-> None,
                                    build |-> Unwrap(self.stable).build])>>
            ELSE <<>>
        preIds ==
            IF IsSome(self.pre)
            THEN [i \in 1..Len(self.pre_by_stream) |->
                    CrateId(name, [version |-> Unwrap(self.pre),
                                    pre |-> Some(self.pre_by_stream[i].pre),
                                    build |-> None])]
            ELSE <<>>
    IN  stableIds \o preIds

\* LatestVersions::iter_ids collected into a sequence
IterIds(self, name) ==
    LET stableIds ==
            IF IsSome(self.stable)
            THEN <<CrateId(name, [version |-> Unwrap(self.stable).version,
                                    pre |-> None,
                                    build |-> Unwrap(self.stable).build])>>
            ELSE <<>>
        preIds ==
            IF IsSome(self.pre)
            THEN [i \in 1..Len(self.pre_by_stream) |->
                    CrateId(name, [version |-> Unwrap(self.pre),
                                    pre |-> Some(self.pre_by_stream[i].pre),
                                    build |-> self.pre_by_stream[i].build])]
            ELSE <<>>
    IN  stableIds \o preIds

----------------------------------------------------------------------------
(* Version::parse and Display.  A &str is a sequence of one-character      *)
(* strings.  A parsed version is a record [version, pre, build] like       *)
(* Version above, with the three numbers in 0..U16Max and the stream and   *)
(* the build as text.                                                      *)

\* u16::MAX, the width of major, minor, patch and PreVersion::version
U16Max == 65535

Digits == {"0", "1", "2", "3", "4", "5", "6", "7", "8", "9"}

\* char::to_digit(10) of a digit
DigitValue(c) ==
    CASE c = "0" -> 0 [] c = "1" -> 1 [] c = "2" -> 2 [] c = "3" -> 3 [] c = "4" -> 4
      [] c = "5" -> 5 [] c = "6" -> 6 [] c = "7" -> 7 [] c = "8" -> 8 [] c = "9" -> 9

\* position of the first c in s, 0 if there is none
IndexOf(s, c) ==
    IF \E i \in 1..Len(s) : s[i] = c
    THEN CHOOSE i \in 1..Len(s) : s[i] = c /\ \A j \in 1..(i - 1) : s[j] # c
    ELSE 0

\* str::split_once(c): Some(<<before, after>>) around the first c
SplitOnce(s, c) ==
    LET i == IndexOf(s, c)
    IN  IF i = 0 THEN None
        ELSE Some(<<SubSeq(s, 1, i - 1), SubSeq(s, i + 1, Len(s))>>)

\* s.splitn(3, '.') collected: at most three parts, the last one the rest
SplitN3(s) ==
    LET first == SplitOnce(s, ".")
    IN  IF IsNone(first) THEN <<s>>
        ELSE LET second == SplitOnce(Unwrap(first)[2], ".")
             IN  IF IsNone(second) THEN <<Unwrap(first)[1], Unwrap(first)[2]>>
                 ELSE <<Unwrap(first)[1], Unwrap(second)[1], Unwrap(second)[2]>>

RECURSIVE ParseDigitsWrapping(_, _)
\* as ParseDigits, with wrapping in place of checked arithmetic
ParseDigitsWrapping(s, acc) ==
    IF s = <<>> THEN Some(acc)
    ELSE IF s[1] \notin Digits THEN None
    ELSE ParseDigitsWrapping(Tail(s), (acc * 10 + DigitValue(s[1])) % (U16Max + 1))

RECURSIVE ParseDigits(_, _)
\* the digit loop of u16::from_str: checked_mul(10) and checked_add(digit)
ParseDigits(s, acc) ==
    IF s = <<>> THEN Some(acc)
    ELSE IF s[1] \notin Digits THEN None
    ELSE IF acc * 10 + DigitValue(s[1]) > U16Max THEN None
    ELSE ParseDigits(Tail(s), acc * 10 + DigitValue(s[1]))

\* as ParseU16, with wrapping arithmetic
ParseU16_Wrapping(s) ==
    IF s = <<>> THEN None
    ELSE IF Len(s) = 1 /\ s[1] \in {"+", "-"} THEN None
    ELSE IF s[1] = "+" THEN ParseDigitsWrapping(Tail(s), 0)
    ELSE ParseDigitsWrapping(s, 0)

\* s.parse::<u16>().ok(): u16::from_str takes an optional leading '+' and
\* then digits only; empty, a lone sign, any other character and a value
\* above u16::MAX are errors
ParseU16(s) ==
    IF s = <<>> THEN None
    ELSE IF Len(s) = 1 /\ s[1] \in {"+", "-"} THEN None
    ELSE IF s[1] = "+" THEN ParseDigits(Tail(s), 0)
    ELSE ParseDigits(s, 0)

\* parse_with_build, lines 76-83: Some(<<number, build>>)
ParseWithBuild(s) ==
    LET split == SplitOnce(s, "+")
        num == IF IsSome(split) THEN Unwrap(split)[1] ELSE s
        build == IF IsSome(split) THEN Some(Unwrap(split)[2]) ELSE None
    IN  IF IsSome(ParseU16(num)) THEN Some(<<Unwrap(ParseU16(num)), build>>) ELSE None

\* Version::parse, lines 89-102: the third part holds a '-'
ParsePreRelease(major, minor, patch, pre_text) ==
    LET split == SplitOnce(pre_text, ".")
    IN  IF IsNone(split) THEN None
        ELSE LET nb == ParseWithBuild(Unwrap(split)[2])
             IN  IF IsNone(nb) THEN None
                 ELSE IF IsNone(ParseU16(patch)) THEN None
                 ELSE Some([version |-> [major |-> major, minor |-> minor,
                                         patch |-> Unwrap(ParseU16(patch))],
                            pre |-> Some([stream |-> Unwrap(split)[1],
                                          version |-> Unwrap(nb)[1]]),
                            build |-> Unwrap(nb)[2]])

\* Version::parse, lines 103-114: the third part holds no '-'
ParseStable(major, minor, rest) ==
    LET pb == ParseWithBuild(rest)
    IN  IF IsNone(pb) THEN None
        ELSE Some([version |-> [major |-> major, minor |-> minor, patch |-> Unwrap(pb)[1]],
                   pre |-> None,
                   build |-> Unwrap(pb)[2]])

\* Version::parse
VersionParse(s) ==
    LET parts == SplitN3(s)
    IN  IF IsNone(ParseU16(parts[1])) THEN None
        ELSE IF Len(parts) < 2 THEN None
        ELSE IF IsNone(ParseU16(parts[2])) THEN None
        ELSE IF Len(parts) < 3 THEN None
        ELSE LET major == Unwrap(ParseU16(parts[1]))
                 minor == Unwrap(ParseU16(parts[2]))
                 split == SplitOnce(parts[3], "-")
             IN  IF IsSome(split)
                 THEN ParsePreRelease(major, minor, Unwrap(split)[1], Unwrap(split)[2])
                 ELSE ParseStable(major, minor, parts[3])

\* the decimal digit for 0..9
DigitChar(d) ==
    CASE d = 0 -> "0" [] d = 1 -> "1" [] d = 2 -> "2" [] d = 3 -> "3" [] d = 4 -> "4"
      [] d = 5 -> "5" [] d = 6 -> "6" [] d = 7 -> "7" [] d = 8 -> "8" [] d = 9 -> "9"

RECURSIVE DisplayU16(_)
\* Display of a u16: decimal, no leading zeros
DisplayU16(n) ==
    IF n < 10 THEN <<DigitChar(n)>>
    ELSE Append(DisplayU16(n \div 10), DigitChar(n % 10))

\* Display for MainVersion, line 12
DisplayMain(m) ==
    DisplayU16(m.major) \o <<".">> \o DisplayU16(m.minor) \o <<".">> \o DisplayU16(m.patch)

\* Display for Version, lines 118-129
DisplayVersion(v) ==
    DisplayMain(v.version)
    \o (IF IsSome(v.pre)
        THEN <<"-">> \o Unwrap(v.pre).stream \o <<".">> \o DisplayU16(Unwrap(v.pre).version)
        ELSE <<>>)
    \o (IF IsSome(v.build) THEN <<"+">> \o Unwrap(v.build) ELSE <<>>)

\* name.get(..pos) of line 236, pos counted from 1 here: the text before
\* the hyphen, which always is on a character boundary
NameBefore(name, pos) == Some(SubSeq(name, 1, pos - 1))

\* the closure of find_map, lines 231-240, at the hyphen at pos
TryHyphen(name, pos) ==
    LET version == VersionParse(SubSeq(name, pos + 1, Len(name)))
    IN  IF IsNone(version) THEN None
        ELSE IF IsNone(NameBefore(name, pos)) THEN None
        ELSE Some([name |-> Unwrap(NameBefore(name, pos)), version |-> Unwrap(version)])

RECURSIVE ScanForward(_, _)
\* as ScanBackward, from the left: the scan without .rev()
ScanForward(name, pos) ==
    IF pos > Len(name) THEN None
    ELSE IF name[pos] = "-" /\ IsSome(TryHyphen(name, pos)) THEN TryHyphen(name, pos)
    ELSE ScanForward(name, pos + 1)

RECURSIVE ScanBackward(_, _)
\* lines 227-231: the hyphens from the right, until the closure yields Some
ScanBackward(name, pos) ==
    IF pos = 0 THEN None
    ELSE IF name[pos] = "-" /\ IsSome(TryHyphen(name, pos)) THEN TryHyphen(name, pos)
    ELSE ScanBackward(name, pos - 1)

\* as CrateIdParse, scanning from the left
CrateIdParse_Forward(name) == ScanForward(name, 1)

\* CrateId::parse
CrateIdParse(name) == ScanBackward(name, Len(name))

\* Display for CrateId, line 245
DisplayCrateId(id) == id.name \o <<"-">> \o DisplayVersion(id.version)

----------------------------------------------------------------------------
(* The state machine: one tracker, pushed into in any order.               *)

\* the tracker held in the variables
Tracker == [stable |-> stable, pre |-> pre, pre_by_stream |-> pre_by_stream]

\* the name the tests pass to iter_ids
TestName == ""

\* resolve(): what iter_ids yields for the current tracker
Resolve == IterIds(Tracker, TestName)

Init ==
    /\ stable = Default.stable
    /\ pre = Default.pre
    /\ pre_by_stream = Default.pre_by_stream
    /\ pushed_stable = <<>>
    /\ npush = 0
    /\ group_pushed = {}
    /\ ids = None
    /\ pieces = <<>>
    /\ input = <<>>
    /\ parsed = <<>>
    /\ twin = Default
    /\ discarded = {}
    /\ pushed = <<>>
    /\ rows = <<>>
    /\ result = <<>>
    /\ panicked = FALSE
    /\ crates_done = 0
    /\ pc = "main"
    /\ failed_parse_manifest = FALSE
    /\ multiple_crates = FALSE
    /\ calls = 0
    /\ lint_counters = [l \in Lints |-> 0]
    /\ report = <<>>
    /\ outcome = None
    /\ output = None
    /\ summary = None

\* versions.push(arg)
Push(arg) ==
    LET next == PushOp(Tracker, arg)
    IN  /\ stable' = next.stable
        /\ pre' = next.pre
        /\ pre_by_stream' = next.pre_by_stream

\* any version is pushed
PushAny ==
    /\ \E arg \in Version : Push(arg)
    /\ UNCHANGED <<histVars, groupVars, queryVars, parseVars, twinVars, discardVars, bagVars, rowVars, checkVars>>

Next == PushAny

Spec == Init /\ [][Next]_vars

\* a push that also records, in pushed_stable, the stable versions pushed so far
PushRecorded ==
    /\ npush < MaxPushes
    /\ \E arg \in Version :
            /\ Push(arg)
            /\ pushed_stable' = IF IsNone(arg.pre) THEN Append(pushed_stable, arg)
                                 ELSE pushed_stable
    /\ npush' = npush + 1
    /\ UNCHANGED <<groupVars, queryVars, parseVars, twinVars, discardVars, bagVars, rowVars, checkVars>>

NextHist == PushRecorded

\* at most MaxPushes pushes, with the history of the stable ones
SpecHist == Init /\ [][NextHist]_vars

\* the pre-releases of the group pushed since pre took its current value,
\* after arg is pushed and the tracker becomes next
GroupPushedAfter(next, arg) ==
    IF IsNone(next.pre) THEN {}
    ELSE IF next.pre # pre
         THEN (IF IsSome(arg.pre) /\ arg.version = Unwrap(next.pre)
               THEN {Unwrap(arg.pre)} ELSE {})
         ELSE IF IsSome(arg.pre) /\ arg.version = Unwrap(pre)
              THEN group_pushed \cup {Unwrap(arg.pre)}
              ELSE group_pushed

\* a push that also records the pre-releases pushed into the current group
PushGroup ==
    /\ \E arg \in Version :
            /\ Push(arg)
            /\ group_pushed' = GroupPushedAfter(PushOp(Tracker, arg), arg)
    /\ UNCHANGED <<histVars, queryVars, parseVars, twinVars, discardVars, bagVars, rowVars, checkVars>>

NextGroup == PushGroup

\* pushes in any order, with the history of the current group
SpecGroup == Init /\ [][NextGroup]_vars

\* a push between iter_ids calls: the iterator borrows the tracker, so none
\* is alive across a push
PushBetween ==
    /\ \E arg \in Version : Push(arg)
    /\ ids' = None
    /\ UNCHANGED <<histVars, groupVars, parseVars, twinVars, discardVars, bagVars, rowVars, checkVars>>

\* as Query, with an iterator that takes the entries out of pre_by_stream
Query_Drain ==
    /\ ids' = Some(IterIds(Tracker, TestName))
    /\ pre_by_stream' = <<>>
    /\ UNCHANGED <<stable, pre, histVars, groupVars, parseVars, twinVars, discardVars, bagVars, rowVars, checkVars>>

\* versions.iter_ids(name).collect(): iter_ids takes &self
Query ==
    /\ ids' = Some(IterIds(Tracker, TestName))
    /\ UNCHANGED <<stable, pre, pre_by_stream, histVars, groupVars, parseVars, twinVars, discardVars, bagVars, rowVars, checkVars>>

NextQuery == PushBetween \/ Query

\* pushes and iter_ids calls in any order
SpecQuery == Init /\ [][NextQuery]_vars

\* the tracker and the history variables as Init leaves them
NoTracker ==
    /\ stable = Default.stable
    /\ pre = Default.pre
    /\ pre_by_stream = Default.pre_by_stream
    /\ pushed_stable = <<>>
    /\ npush = 0
    /\ group_pushed = {}
    /\ ids = None
    /\ twin = Default
    /\ discarded = {}
    /\ pushed = <<>>
    /\ rows = <<>>
    /\ result = <<>>
    /\ panicked = FALSE
    /\ crates_done = 0
    /\ pc = "main"
    /\ failed_parse_manifest = FALSE
    /\ multiple_crates = FALSE
    /\ calls = 0
    /\ lint_counters = [l \in Lints |-> 0]
    /\ report = <<>>
    /\ outcome = None
    /\ output = None
    /\ summary = None

\* the texts the version strings are put together from
MajorTexts == {<<"0">>,
    <<"1">>,
    <<"0", "1">>,
    <<"6", "5", "5", "3", "5">>,
    <<"6", "5", "5", "3", "6">>,
    <<"1", "3", "1", "0", "7", "1">>,
    <<"+", "1">>,
    <<"-", "1">>,
    <<"1", ".", "5">>,
    <<>>}
MinorTexts == {<<"0">>,
    <<"6", "5", "5", "3", "5">>,
    <<"6", "5", "5", "3", "6">>,
    <<"+", "1">>}
PatchTexts == {<<"1">>,
    <<"6", "5", "5", "3", "5">>,
    <<"6", "5", "5", "3", "6">>,
    <<"+", "1">>,
    <<"1", ".", "5">>}
NumberTexts == {<<"1">>,
    <<"0", "1">>,
    <<"6", "5", "5", "3", "5">>,
    <<"6", "5", "5", "3", "6">>,
    <<"+", "1">>}
StreamTexts == {<<"r", "c">>,
    <<"a", "-", "b">>,
    <<"a", "+", "b">>}
BuildTexts == {<<"b">>,
    <<"a", "-", "b">>,
    <<"x", ".", "1">>,
    <<"b", "+", "c">>}

VersionPieces ==
    [major : MajorTexts, minor : MinorTexts, patch : PatchTexts,
     pre : OptionOf([stream : StreamTexts, number : NumberTexts]),
     build : OptionOf(BuildTexts)]

\* the version string major.minor.patch[-stream.number][+build]
Assemble(p) ==
    p.major \o <<".">> \o p.minor \o <<".">> \o p.patch
    \o (IF IsSome(p.pre)
        THEN <<"-">> \o Unwrap(p.pre).stream \o <<".">> \o Unwrap(p.pre).number
        ELSE <<>>)
    \o (IF IsSome(p.build) THEN <<"+">> \o Unwrap(p.build) ELSE <<>>)

InitParse ==
    /\ NoTracker
    /\ pieces \in VersionPieces
    /\ input = Assemble(pieces)
    /\ parsed = <<>>

\* Version::parse(input)
ParseStep ==
    /\ parsed = <<>>
    /\ parsed' = <<VersionParse(input)>>
    /\ UNCHANGED <<trackerVars, histVars, groupVars, queryVars, pieces, input, twinVars, discardVars, bagVars, rowVars, checkVars>>

NextParse == ParseStep

\* Version::parse on one version string
SpecParse == InitParse /\ [][NextParse]_vars

\* the texts the crate-id strings are put together from
NameTexts == {<<"a">>,
    <<>>,
    <<"a", "-", "b">>,
    <<"a", "-", "1", ".", "0", ".", "0">>,
    <<"x", "1">>}
SeparatorTexts == {<<"-">>, <<>>}
VersionTexts == {<<"1", ".", "2", ".", "3">>,
    <<"0", ".", "1", ".", "0", "-", "r", "c", ".", "1">>,
    <<"1", ".", "0", ".", "0", "+", "b">>,
    <<"1", ".", "0", ".", "0", "-", "r", "c", ".", "1", "+", "b">>,
    <<"1", ".", "0", ".", "0", "-", "r", "c", ".", "1", "+", "b", "-", "2", ".", "0", ".", "0">>,
    <<"1", ".", "0", ".", "0", "-", "a", "-", "b", ".", "1">>,
    <<"1", ".", "0", ".", "0", "+", "a", "-", "b">>,
    <<"+", "1", ".", "0", ".", "0">>,
    <<"1", ".", "2", ".", "3", "-", "r", "c">>,
    <<"6", "5", "5", "3", "6", ".", "0", ".", "0">>,
    <<"1", ".", "0">>,
    <<"a", "b", "c">>,
    <<>>}

CrateIdPieces == [name : NameTexts, sep : SeparatorTexts, version : VersionTexts]

InitCrateId ==
    /\ NoTracker
    /\ pieces \in CrateIdPieces
    /\ input = pieces.name \o pieces.sep \o pieces.version
    /\ parsed = <<>>

\* CrateId::parse(input)
CrateIdParseStep ==
    /\ parsed = <<>>
    /\ parsed' = <<CrateIdParse(input)>>
    /\ UNCHANGED <<trackerVars, histVars, groupVars, queryVars, pieces, input, twinVars, discardVars, bagVars, rowVars, checkVars>>

NextCrateId == CrateIdParseStep

\* CrateId::parse on one file stem
SpecCrateId == InitCrateId /\ [][NextCrateId]_vars

----------------------------------------------------------------------------
(* Pushes with more history: a twin tracker, the discarded groups, the bag *)
(* of the versions pushed.                                                 *)

\* the version without its build string
EraseBuild(v) == [v EXCEPT !.build = None]

\* a push into the tracker, and the same push without its build into twin
PushTwin ==
    /\ \E arg \in Version :
            /\ Push(arg)
            /\ twin' = PushOp(twin, EraseBuild(arg))
    /\ UNCHANGED <<histVars, groupVars, queryVars, parseVars, discardVars, bagVars, rowVars, checkVars>>

NextTwin == PushTwin

\* two trackers fed the same pushes, the second without the build strings
SpecTwin == Init /\ [][NextTwin]_vars

\* the main versions pre held and lost, after the tracker becomes next
DiscardedAfter(next) ==
    IF IsSome(pre) /\ next.pre # pre THEN discarded \cup {Unwrap(pre)} ELSE discarded

\* a push that also records the main version pre loses, if it loses one
PushDiscard ==
    /\ npush < MaxPushes
    /\ \E arg \in Version :
            /\ Push(arg)
            /\ discarded' = DiscardedAfter(PushOp(Tracker, arg))
    /\ npush' = npush + 1
    /\ UNCHANGED <<pushed_stable, groupVars, queryVars, parseVars, twinVars, bagVars, rowVars, checkVars>>

NextDiscard == PushDiscard

\* at most MaxPushes pushes, with the history of the values of pre
SpecDiscard == Init /\ [][NextDiscard]_vars

\* a push that also records the version in the bag of versions pushed
PushBag ==
    /\ BagCardinality(pushed) < MaxPermuted
    /\ \E arg \in Version :
            /\ Push(arg)
            /\ pushed' = pushed (+) SetToBag({arg})
    /\ UNCHANGED <<histVars, groupVars, queryVars, parseVars, twinVars, discardVars, rowVars, checkVars>>

NextBag == PushBag

\* at most MaxPermuted pushes, with the bag of the versions pushed
SpecBag == Init /\ [][NextBag]_vars

----------------------------------------------------------------------------
(* read_versions (src/bin/download_crates.rs): the loop over the records   *)
(* of versions.csv.  A record is [crate_id, num, yanked], the three cells  *)
(* extract_indicies returns, each a text.  The HashMap is a function from  *)
(* the crate ids present to their trackers.                                *)

\* data[0].parse(): the u64 of a crate id text (the texts of the model are
\* far below u64::MAX); one leading + is accepted, as for u16
RECURSIVE ParseIdDigits(_, _)
ParseIdDigits(s, acc) ==
    IF s = <<>> THEN Some(acc)
    ELSE IF s[1] \notin Digits THEN None
    ELSE ParseIdDigits(Tail(s), acc * 10 + DigitValue(s[1]))

ParseU64(s) ==
    IF s = <<>> THEN None
    ELSE IF Len(s) = 1 /\ s[1] \in {"+", "-"} THEN None
    ELSE IF s[1] = "+" THEN ParseIdDigits(Tail(s), 0)
    ELSE ParseIdDigits(s, 0)

\* as EntryPush, pushing the version into every tracker of the map
EntryPush_AllKeys(map, key, version) ==
    LET m == IF key \in DOMAIN map THEN map ELSE map @@ (key :> Default)
    IN  [k \in DOMAIN m |-> PushOp(m[k], version)]

\* result.entry(id).or_default().push(version)
EntryPush(map, key, version) ==
    LET m == IF key \in DOMAIN map THEN map ELSE map @@ (key :> Default)
    IN  [m EXCEPT ![key] = PushOp(m[key], version)]

\* the HashMap and the run before the first record
NoRows == [result |-> <<>>, panicked |-> FALSE]

\* as ReadRow, without the test of the yanked flag
ReadRow_NoYankCheck(st, r) ==
    LET id == ParseU64(r.crate_id)
        version == VersionParse(r.num)
    IN  IF IsNone(id) THEN [st EXCEPT !.panicked = TRUE]
        ELSE IF IsSome(version)
             THEN [st EXCEPT !.result = EntryPush(@, Unwrap(id), Unwrap(version))]
             ELSE st

\* the body of the loop, lines 128-136, for the record r
ReadRow(st, r) ==
    LET id == ParseU64(r.crate_id)
        version == VersionParse(r.num)
    IN  IF r.yanked = <<"t">> THEN st
        ELSE IF IsNone(id) THEN [st EXCEPT !.panicked = TRUE]
        ELSE IF IsSome(version)
             THEN [st EXCEPT !.result = EntryPush(@, Unwrap(id), Unwrap(version))]
             ELSE st

\* the cells of the records
IdTexts == {<<"1">>, <<"2">>, <<"x">>}
NumTexts == {<<"0", ".", "0", ".", "1">>,
             <<"0", ".", "1", ".", "0">>,
             <<"0", ".", "1", ".", "0", "-", "r", "c", ".", "1">>,
             <<"1", ".", "0">>}
YankedTexts == {<<"t">>, <<"f">>}
Records == [crate_id : IdTexts, num : NumTexts, yanked : YankedTexts]

\* the loop reads one more record; a panic ends the run
ReadRecord ==
    /\ ~panicked
    /\ Len(rows) < MaxRows
    /\ \E r \in Records :
            LET st == ReadRow([result |-> result, panicked |-> panicked], r)
            IN  /\ rows' = Append(rows, r)
                /\ result' = st.result
                /\ panicked' = st.panicked
    /\ UNCHANGED <<trackerVars, histVars, groupVars, queryVars, parseVars, twinVars, discardVars, bagVars, checkVars>>

NextRows == ReadRecord

\* read_versions on at most MaxRows records
SpecRows == Init /\ [][NextRows]_vars

----------------------------------------------------------------------------
(* main, check_crate and compile_crate (src/main.rs).  A RunOutput is the  *)
(* record [lint_msgs, err_msg, ice_msg, fix_msg]; lint_msgs is the         *)
(* sequence of the rendered warnings, err_msg the sequence of the parts    *)
(* pushed onto the string, ice_msg and fix_msg are empty or <<"stderr">>.  *)
(* A RunResult is [tag, out] with the RunOutput or, for MultipleCrates and *)
(* FailedParseManifest, [tag, msg] with the message.  The output of one    *)
(* cargo run is [status, stderr, stdout]: whether the process could be run *)
(* and succeeded, which of the texts compile_crate looks for stderr        *)
(* contains, and the messages of the JSON stream.                          *)

\* RunOutput::default()
DefaultOutput == [lint_msgs |-> <<>>, err_msg |-> <<>>, ice_msg |-> <<>>, fix_msg |-> <<>>]

\* the messages of the stream: a warning of a lint that is counted, one of
\* a lint not asked for, the error E0464, a platform dependent error, any
\* other error, and a line that does not parse
Messages ==
    {[level |-> "Warning", code |-> Some("clippy::a"), rendered |-> "warning"],
     [level |-> "Warning", code |-> Some("clippy::b"), rendered |-> "warning"],
     [level |-> "Error", code |-> Some("E0464"), rendered |-> "multiple"],
     [level |-> "Error", code |-> Some("E0455"), rendered |-> "link kind framework"],
     [level |-> "Error", code |-> None, rendered |-> "error"],
     [level |-> "Unparsable", code |-> None, rendered |-> ""]}

\* filter.map_or(true, |f| f.is_match(&m)): no filter is given
FilterMatches(rendered) == TRUE

\* the streams of at most MaxMessages messages
Streams_Of_Messages == UNION {[1..n -> Messages] : n \in 0..MaxMessages}

\* what stderr contains when the run failed
StderrTexts == {"failed to run custom build command: pkg-config",
                "failed to run custom build command",
                "failed to parse manifest at",
                "internal compiler error:",
                "failed to automatically apply fixes",
                "other"}

\* the outputs of a cargo run; the stream is read only on the paths that
\* reach line 465
CargoOutputs ==
    {[status |-> "not run", stderr |-> "", stdout |-> <<>>]}
    \cup [status : {"failed"},
          stderr : {"failed to run custom build command: pkg-config",
                    "failed to parse manifest at"},
          stdout : {<<>>}]
    \cup [status : {"success"}, stderr : {""}, stdout : Streams_Of_Messages]
    \cup [status : {"failed"},
          stderr : StderrTexts \ {"failed to run custom build command: pkg-config",
                                  "failed to parse manifest at"},
          stdout : Streams_Of_Messages]

\* lines 469-476: a warning of a lint asked for that the filter accepts
CountLint(acc, m) ==
    IF Unwrap(m.code) \in DOMAIN acc.lints /\ FilterMatches(m.rendered)
    THEN [acc EXCEPT !.lints[Unwrap(m.code)] = @ + 1,
                     !.result.lint_msgs = Append(@, m.rendered)]
    ELSE acc

\* lines 481-501: the platform dependent errors
PlatformError(m) == m.code = Some("E0455") /\ m.rendered = "link kind framework"

\* lines 466-507: one message of the stream; acc is [lints, result, stop]
MessageStep(acc, m) ==
    IF m.level = "Unparsable" THEN [acc EXCEPT !.stop = "err"]
    ELSE IF m.level = "Warning" /\ IsSome(m.code) THEN CountLint(acc, m)
    ELSE IF m.level = "Error" /\ m.code = Some("E0464")
         THEN [acc EXCEPT !.result.err_msg = Append(@, m.rendered), !.stop = "multiple"]
    ELSE IF m.level = "Error" /\ PlatformError(m)
         THEN [acc EXCEPT !.result.err_msg = <<>>, !.stop = "break"]
    ELSE IF m.level = "Error"
         THEN [acc EXCEPT !.result.err_msg = Append(@, m.rendered)]
    ELSE acc

\* lines 465-508: the loop over the stream, left by return, break or ?
RECURSIVE ParseStream(_, _)
ParseStream(acc, stdout) ==
    IF stdout = <<>> \/ acc.stop # "go" THEN acc
    ELSE ParseStream(MessageStep(acc, Head(stdout)), Tail(stdout))

\* lines 510-518: what becomes of stderr after the stream
AfterStream(res, out) ==
    IF out.status = "success" THEN res
    ELSE IF out.stderr = "internal compiler error:"
         THEN [res EXCEPT !.ice_msg = <<"stderr">>]
    ELSE IF out.stderr = "failed to automatically apply fixes"
         THEN [res EXCEPT !.fix_msg = <<"stderr">>]
    ELSE [res EXCEPT !.err_msg = Append(@, "stderr")]

\* compile_crate: the map of counters after the call and the RunResult
CompileCrate(lints, out) ==
    IF out.status = "not run" THEN [lints |-> lints, tag |-> "Err"]
    ELSE IF out.status = "failed"
            /\ out.stderr = "failed to run custom build command: pkg-config"
         THEN [lints |-> lints, tag |-> "Complete",
               out |-> [DefaultOutput EXCEPT !.err_msg = <<"pkg-config error">>]]
    ELSE IF out.status = "failed" /\ out.stderr = "failed to parse manifest at"
         THEN [lints |-> lints, tag |-> "FailedParseManifest",
               msg |-> <<"error running clippy", "stderr">>]
    ELSE LET first == IF out.status = "failed"
                      THEN [DefaultOutput EXCEPT !.err_msg = <<"error running clippy">>]
                      ELSE DefaultOutput
             acc == ParseStream([lints |-> lints, result |-> first, stop |-> "go"],
                                out.stdout)
         IN  IF acc.stop = "err" THEN [lints |-> acc.lints, tag |-> "Err"]
             ELSE IF acc.stop = "multiple"
                  THEN [lints |-> acc.lints, tag |-> "MultipleCrates",
                        msg |-> acc.result.err_msg]
             ELSE [lints |-> acc.lints, tag |-> "Complete",
                   out |-> AfterStream(acc.result, out)]

\* the two outcomes of compile_crate that check_crate retries after
Recoverable == {"FailedParseManifest", "MultipleCrates"}

\* as FirstOf, every occurrence taken for the first
FirstOf_Always(flag) == TRUE

\* the guards of lines 404 and 417: the flag is not set yet
FirstOf(flag) == ~flag

\* main, lines 142-185: what the loop of main does with the value
\* check_crate returned; ret is Some(RunOutput) for Ok and None for Err
Returned(ret) ==
    /\ pc' = "main"
    /\ crates_done' = crates_done + 1
    /\ output' = ret
    /\ report' = IF IsSome(ret) /\ Unwrap(ret).lint_msgs # <<>>
                 THEN Append(report, Len(Unwrap(ret).lint_msgs))
                 ELSE report

\* main, lines 123-141, and check_crate, lines 359-400: the next crate is
\* unpacked and prepared, which may fail, and the loop is entered
BeginCheck ==
    /\ pc = "main"
    /\ crates_done < MaxCrates
    /\ failed_parse_manifest' = FALSE
    /\ multiple_crates' = FALSE
    /\ calls' = 0
    /\ outcome' = None
    /\ \E prepared \in BOOLEAN :
            IF prepared
            THEN /\ pc' = "loop"
                 /\ output' = None
                 /\ UNCHANGED <<crates_done, report>>
            ELSE Returned(None)
    /\ UNCHANGED <<lint_counters, summary>>
    /\ UNCHANGED <<trackerVars, histVars, groupVars, queryVars, parseVars, twinVars,
                   discardVars, bagVars, rowVars>>

\* check_crate, lines 401-428: one turn of the loop, with the return to
\* main when the loop is left
Iterate ==
    /\ pc = "loop"
    /\ \E out \in CargoOutputs :
            LET r == CompileCrate(lint_counters, out)
            IN  /\ calls' = calls + 1
                /\ lint_counters' = r.lints
                /\ outcome' = Some([tag |-> r.tag,
                                    msg |-> IF r.tag \in Recoverable THEN r.msg ELSE <<>>])
                /\ IF r.tag = "Err" THEN
                        /\ Returned(None)
                        /\ UNCHANGED <<failed_parse_manifest, multiple_crates>>
                   ELSE IF r.tag = "Complete" THEN
                        /\ Returned(Some(r.out))
                        /\ UNCHANGED <<failed_parse_manifest, multiple_crates>>
                   ELSE IF r.tag = "FailedParseManifest" /\ FirstOf(failed_parse_manifest) THEN
                        /\ failed_parse_manifest' = TRUE
                        /\ \E written \in BOOLEAN :
                                IF written
                                THEN /\ pc' = "loop"
                                     /\ UNCHANGED <<crates_done, output, report>>
                                ELSE Returned(None)
                        /\ UNCHANGED multiple_crates
                   ELSE IF r.tag = "MultipleCrates" /\ FirstOf(multiple_crates) THEN
                        /\ multiple_crates' = TRUE
                        /\ pc' = "loop"
                        /\ UNCHANGED <<crates_done, output, report, failed_parse_manifest>>
                   ELSE
                        /\ Returned(Some([DefaultOutput EXCEPT !.err_msg = r.msg]))
                        /\ UNCHANGED <<failed_parse_manifest, multiple_crates>>
    /\ UNCHANGED summary
    /\ UNCHANGED <<trackerVars, histVars, groupVars, queryVars, parseVars, twinVars,
                   discardVars, bagVars, rowVars>>

\* main, lines 188-196: after the last crate the summary writes the counters
WriteSummary ==
    /\ pc = "main"
    /\ pc' = "done"
    /\ summary' = Some(lint_counters)
    /\ UNCHANGED <<crates_done, failed_parse_manifest, multiple_crates, calls,
                   lint_counters, report, outcome, output>>
    /\ UNCHANGED <<trackerVars, histVars, groupVars, queryVars, parseVars, twinVars,
                   discardVars, bagVars, rowVars>>

NextCheck == BeginCheck \/ Iterate \/ WriteSummary

\* main over at most MaxCrates crates
SpecCheck == Init /\ [][NextCheck]_vars

\* the same, where a loop that can take a turn takes it: compile_crate
\* returns
SpecCheckLive == SpecCheck /\ WF_vars(Iterate)

----------------------------------------------------------------------------
(* Vocabulary of the properties.  The order on main versions is written    *)
(* out here on its own, apart from MainCmp.                                *)

\* a <= b in the order of (major, minor, patch)
LexLeq(a, b) ==
    \/ a.major < b.major
    \/ a.major = b.major /\ a.minor < b.minor
    \/ a.major = b.major /\ a.minor = b.minor /\ a.patch <= b.patch

\* a < b in the order of (major, minor, patch)
LexLess(a, b) == LexLeq(a, b) /\ a # b

\* the tracker after one more push of arg
After(arg) == PushOp(Tracker, arg)

\* arg is strictly newer than the recorded stable version, or there is none
NewerThanStable(arg) == IsNone(stable) \/ LexLess(Unwrap(stable).version, arg.version)

\* the identifier iter_ids yields for version v
IdOf(v) == CrateId(TestName, v)

\* positions of pre_by_stream holding the stream
PositionsOf(list, stream) == {i \in 1..Len(list) : list[i].pre.stream = stream}

\* the stream names of a list of entries, in order
StreamsOf(list) == [i \in 1..Len(list) |-> list[i].pre.stream]

----------------------------------------------------------------------------
\* C1: with a stable version V recorded, pushing any version (stable or
\* pre-release, any build) whose main version is <= V changes nothing:
\* stable, pre, pre_by_stream and the sequence iter_ids yields stay the same.
C1_StableDominance ==
    \A arg \in Version :
        (IsSome(stable) /\ LexLeq(arg.version, Unwrap(stable).version))
            => /\ After(arg) = Tracker
               /\ IterIds(After(arg), TestName) = Resolve

\* C1 happens: a stable version and a pre-release group are recorded, and a
\* stable version of the same main version with another build is pushable.
C1_Witness ==
    /\ IsSome(stable)
    /\ IsSome(pre)
    /\ \E arg \in Version :
            /\ IsNone(arg.pre)
            /\ arg.version = Unwrap(stable).version
            /\ arg.build # Unwrap(stable).build
            /\ After(arg) = Tracker

\* C2: a stable version V strictly newer than the recorded stable (or with no
\* stable recorded), pushed onto a pre-release group with pre <= V, leaves
\* pre absent, pre_by_stream empty and iter_ids yielding exactly [V].
C2_StableSubsumesGroup ==
    \A arg \in Version :
        (/\ IsNone(arg.pre)
         /\ NewerThanStable(arg)
         /\ IsSome(pre)
         /\ LexLeq(Unwrap(pre), arg.version))
            => /\ After(arg).pre = None
               /\ After(arg).pre_by_stream = <<>>
               /\ IterIds(After(arg), TestName) = <<IdOf(arg)>>

\* C2 happens: a group of two streams and an older stable version are
\* recorded, and the stable release of the group's main version clears it.
C2_Witness ==
    /\ IsSome(stable)
    /\ Len(pre_by_stream) = 2
    /\ \E arg \in Version :
            /\ IsNone(arg.pre)
            /\ arg.version = Unwrap(pre)
            /\ NewerThanStable(arg)
            /\ After(arg).pre_by_stream = <<>>

\* C3: a pre-release of the group's main version whose stream has an entry:
\* the entry takes the incoming number and build if the incoming number is
\* strictly greater, and otherwise stays as it is, build included; the other
\* entries, pre and stable are kept and the number of entries is unchanged.
C3_SameStreamReplacement ==
    \A arg \in Version :
        (/\ IsSome(arg.pre)
         /\ IsSome(pre)
         /\ arg.version = Unwrap(pre)
         /\ PositionsOf(pre_by_stream, Unwrap(arg.pre).stream) # {})
            => \A i \in PositionsOf(pre_by_stream, Unwrap(arg.pre).stream) :
                /\ Len(After(arg).pre_by_stream) = Len(pre_by_stream)
                /\ After(arg).stable = stable
                /\ After(arg).pre = pre
                /\ \A j \in 1..Len(pre_by_stream) :
                        j # i => After(arg).pre_by_stream[j] = pre_by_stream[j]
                /\ After(arg).pre_by_stream[i] =
                        IF Unwrap(arg.pre).version > pre_by_stream[i].pre.version
                        THEN Entry(Unwrap(arg.pre), arg.build)
                        ELSE pre_by_stream[i]

\* C3 happens: the group holds two streams, and for one of them a greater
\* number replaces the entry while an equal number with another build does
\* not.
C3_Witness ==
    /\ Len(pre_by_stream) = 2
    /\ \E arg, same \in Version :
        /\ IsSome(arg.pre) /\ IsSome(same.pre)
        /\ arg.version = Unwrap(pre) /\ same.version = Unwrap(pre)
        /\ Unwrap(arg.pre).stream = pre_by_stream[1].pre.stream
        /\ Unwrap(same.pre).stream = pre_by_stream[1].pre.stream
        /\ Unwrap(arg.pre).version > pre_by_stream[1].pre.version
        /\ Unwrap(same.pre).version = pre_by_stream[1].pre.version
        /\ same.build # pre_by_stream[1].build
        /\ After(arg).pre_by_stream[1] = Entry(Unwrap(arg.pre), arg.build)
        /\ After(same) = Tracker

\* C4: a pre-release of the group's main version whose stream has no entry
\* is appended after the existing entries, which are all kept, so iter_ids
\* yields each stream of the group exactly once.
C4_StreamIndependence ==
    \A arg \in Version :
        (/\ IsSome(arg.pre)
         /\ IsSome(pre)
         /\ arg.version = Unwrap(pre)
         /\ PositionsOf(pre_by_stream, Unwrap(arg.pre).stream) = {})
            => /\ After(arg).pre_by_stream =
                        pre_by_stream \o <<Entry(Unwrap(arg.pre), arg.build)>>
               /\ After(arg).pre = pre
               /\ After(arg).stable = stable
               /\ \A s \in Streams :
                    Cardinality({k \in 1..Len(IterIds(After(arg), TestName)) :
                        /\ IsSome(IterIds(After(arg), TestName)[k].version.pre)
                        /\ Unwrap(IterIds(After(arg), TestName)[k].version.pre).stream = s})
                    = IF s = Unwrap(arg.pre).stream
                         \/ PositionsOf(pre_by_stream, s) # {} THEN 1 ELSE 0

\* C4 happens: the group holds one stream only and a version of the other
\* stream is pushable, after which iter_ids yields both.
C4_Witness ==
    /\ Len(pre_by_stream) = 1
    /\ \E arg \in Version :
            /\ IsSome(arg.pre)
            /\ arg.version = Unwrap(pre)
            /\ Unwrap(arg.pre).stream # pre_by_stream[1].pre.stream
            /\ Len(After(arg).pre_by_stream) = 2

\* C5: with a group at main version V, a pre-release of a strictly greater
\* main version W (also greater than the recorded stable) sets pre to W and
\* leaves pre_by_stream holding exactly the pushed stream, number and build.
C5_GroupInvalidation ==
    \A arg \in Version :
        (/\ IsSome(arg.pre)
         /\ IsSome(pre)
         /\ LexLess(Unwrap(pre), arg.version)
         /\ NewerThanStable(arg))
            => /\ After(arg).pre = Some(arg.version)
               /\ After(arg).pre_by_stream = <<Entry(Unwrap(arg.pre), arg.build)>>
               /\ After(arg).stable = stable

\* C5 happens: a group of two streams is recorded and a pre-release of a
\* greater main version is pushable, which leaves one entry.
C5_Witness ==
    /\ Len(pre_by_stream) = 2
    /\ \E arg \in Version :
            /\ IsSome(arg.pre)
            /\ LexLess(Unwrap(pre), arg.version)
            /\ Len(After(arg).pre_by_stream) = 1

\* C6: pushing a version twice in a row gives the same tracker and the same
\* iter_ids sequence as pushing it once.
C6_PushIdempotent ==
    \A arg \in Version :
        /\ PushOp(After(arg), arg) = After(arg)
        /\ IterIds(PushOp(After(arg), arg), TestName) = IterIds(After(arg), TestName)

\* C6 happens: a pre-release of a stream the group does not hold yet changes
\* the tracker when pushed once, and not again when pushed twice.
C6_Witness ==
    /\ Len(pre_by_stream) = 1
    /\ \E arg \in Version :
            /\ IsSome(arg.pre)
            /\ arg.version = Unwrap(pre)
            /\ Unwrap(arg.pre).stream # pre_by_stream[1].pre.stream
            /\ After(arg) # Tracker
            /\ PushOp(After(arg), arg) = After(arg)

\* C7: iter_ids yields the stable identifier first, if a stable version is
\* recorded, then one identifier per entry of pre_by_stream in list order;
\* and a push keeps the streams of a surviving group in their positions, a
\* stream new to the group going last (replacing a number moves nothing).
C7_ResolveOrder ==
    /\ Resolve =
        (IF IsSome(stable)
         THEN <<IdOf([version |-> Unwrap(stable).version, pre |-> None,
                      build |-> Unwrap(stable).build])>>
         ELSE <<>>)
        \o [i \in 1..Len(pre_by_stream) |->
                IdOf([version |-> Unwrap(pre), pre |-> Some(pre_by_stream[i].pre),
                      build |-> pre_by_stream[i].build])]
    /\ \A arg \in Version :
        LET old == StreamsOf(pre_by_stream)
            new == StreamsOf(After(arg).pre_by_stream)
        IN  /\ (IsSome(pre) /\ After(arg).pre = pre) =>
                    \/ new = old
                    \/ /\ IsSome(arg.pre)
                       /\ PositionsOf(pre_by_stream, Unwrap(arg.pre).stream) = {}
                       /\ new = old \o <<Unwrap(arg.pre).stream>>
            /\ (IsSome(arg.pre) /\ PositionsOf(pre_by_stream, Unwrap(arg.pre).stream) # {}
                    /\ After(arg).pre = pre)
                    => new = old

\* C7 happens: a stable version and a group of two streams are recorded, so
\* iter_ids yields three identifiers, and a greater number for the first
\* stream replaces its entry in place.
C7_Witness ==
    /\ IsSome(stable)
    /\ Len(pre_by_stream) = 2
    /\ Len(Resolve) = 3
    /\ \E arg \in Version :
            /\ IsSome(arg.pre)
            /\ arg.version = Unwrap(pre)
            /\ Unwrap(arg.pre).stream = pre_by_stream[1].pre.stream
            /\ After(arg).pre_by_stream[1] # pre_by_stream[1]
            /\ StreamsOf(After(arg).pre_by_stream) = StreamsOf(pre_by_stream)

\* C8 (invariant I1): when pre and stable are both present, pre is >= the
\* main version of stable.
C8_PreNotBelowStable ==
    (IsSome(pre) /\ IsSome(stable)) => LexLeq(Unwrap(stable).version, Unwrap(pre))

\* C8 happens: a stable version and a pre-release group are both recorded.
C8_Witness ==
    /\ IsSome(pre)
    /\ IsSome(stable)
    /\ Len(pre_by_stream) = 2

\* C9: pre_by_stream holds at most one entry per stream name, and the
\* tracker holds at most one stable version.
C9_OneEntryPerStream ==
    /\ \A i, j \in 1..Len(pre_by_stream) :
            pre_by_stream[i].pre.stream = pre_by_stream[j].pre.stream => i = j
    /\ Len(stable) <= 1
    /\ Len(Resolve) <= 1 + Cardinality(Streams)

\* C9 happens: every stream has an entry and a stable version is recorded.
C9_Witness ==
    /\ IsSome(stable)
    /\ Len(pre_by_stream) = Cardinality(Streams)
    /\ \E arg \in Version :
            /\ IsSome(arg.pre)
            /\ arg.version = Unwrap(pre)
            /\ After(arg) # Tracker

----------------------------------------------------------------------------
(* The history of stable pushes, for the properties that speak of all the  *)
(* versions pushed so far (checked under SpecHist).                        *)

\* the greatest main version among the stable versions pushed
MaxPushedStable ==
    CHOOSE m \in {pushed_stable[i].version : i \in 1..Len(pushed_stable)} :
        \A i \in 1..Len(pushed_stable) : LexLeq(pushed_stable[i].version, m)

\* the first stable version pushed that has the greatest main version
FirstMaxPushedStable ==
    pushed_stable[CHOOSE i \in 1..Len(pushed_stable) :
        /\ pushed_stable[i].version = MaxPushedStable
        /\ \A j \in 1..(i - 1) : pushed_stable[j].version # MaxPushedStable]

\* C10: stable is absent exactly when no stable version has been pushed;
\* otherwise its main version is the greatest among the stable versions
\* pushed, and its build is that of the first of them with that main version.
C10_StableIsFirstMax ==
    /\ IsNone(stable) <=> pushed_stable = <<>>
    /\ pushed_stable # <<>> =>
        /\ Unwrap(stable).version = MaxPushedStable
        /\ Unwrap(stable).build = FirstMaxPushedStable.build

\* C10 happens: three stable versions were pushed, a lower one and then two
\* of the greatest main version with different builds, and the build kept
\* is that of the second push.
C10_Witness ==
    /\ Len(pushed_stable) = 3
    /\ LexLess(pushed_stable[1].version, pushed_stable[2].version)
    /\ pushed_stable[3].version = pushed_stable[2].version
    /\ pushed_stable[3].build # pushed_stable[2].build
    /\ Unwrap(stable).build = pushed_stable[2].build

----------------------------------------------------------------------------
(* The history of the current group (checked under SpecGroup).             *)

\* the numbers pushed for the stream into the current group
GroupNumbers(stream) == {p.version : p \in {q \in group_pushed : q.stream = stream}}

\* C11 (invariant I2): each entry of pre_by_stream carries the greatest
\* number among the pre-releases of its stream pushed with the main version
\* of pre since pre took its current value, and every stream so pushed has an
\* entry; and a push that moves pre to a greater main version (or sets it)
\* leaves pre_by_stream holding the entry of the pushed version only.
C11_EntriesAreGroupMaxima ==
    /\ \A i \in 1..Len(pre_by_stream) :
        /\ pre_by_stream[i].pre.version \in GroupNumbers(pre_by_stream[i].pre.stream)
        /\ \A n \in GroupNumbers(pre_by_stream[i].pre.stream) :
                n <= pre_by_stream[i].pre.version
    /\ \A p \in group_pushed : PositionsOf(pre_by_stream, p.stream) # {}
    /\ \A arg \in Version :
        (/\ IsSome(After(arg).pre)
         /\ After(arg).pre # pre
         /\ IsNone(pre) \/ LexLess(Unwrap(pre), Unwrap(After(arg).pre)))
            => /\ IsSome(arg.pre)
               /\ After(arg).pre = Some(arg.version)
               /\ After(arg).pre_by_stream = <<Entry(Unwrap(arg.pre), arg.build)>>

\* C11 happens: both numbers of a stream were pushed into the group, the
\* other stream has an entry too, and a pre-release of a greater main
\* version is pushable.
C11_Witness ==
    /\ Len(pre_by_stream) = 2
    /\ Cardinality(GroupNumbers(pre_by_stream[1].pre.stream)) = 2
    /\ \E arg \in Version :
            /\ IsSome(arg.pre)
            /\ LexLess(Unwrap(pre), arg.version)
            /\ After(arg).pre = Some(arg.version)

----------------------------------------------------------------------------
(* iter_ids as a query (checked under SpecQuery).                          *)

\* C12: an iter_ids call changes none of stable, pre and pre_by_stream, and
\* two calls with no push in between collect the same sequence.
C12_IterIdsIsPure ==
    [][/\ IsSome(ids') => (stable' = stable /\ pre' = pre /\ pre_by_stream' = pre_by_stream)
       /\ (IsSome(ids) /\ IsSome(ids')) => ids' = ids]_vars

\* C12 happens: iter_ids was called on a tracker holding a stable version
\* and two streams, and collected three identifiers.
C12_Witness ==
    /\ IsSome(ids)
    /\ Len(Unwrap(ids)) = 3
    /\ Unwrap(ids) = Resolve

----------------------------------------------------------------------------
(* Version::parse (checked under SpecParse).                               *)

\* the parser ran, and what it returned
Ran == parsed # <<>>
Result == parsed[1]

\* the text is a non-empty run of decimal digits
IsDigitText(t) == t # <<>> /\ \A i \in 1..Len(t) : t[i] \in Digits

RECURSIVE TextValue(_)
\* the integer a run of decimal digits denotes
TextValue(t) ==
    IF t = <<>> THEN 0
    ELSE 10 * TextValue(SubSeq(t, 1, Len(t) - 1)) + DigitValue(t[Len(t)])

\* the character occurs in the text
Contains(t, c) == \E i \in 1..Len(t) : t[i] = c

\* the texts in the numeric positions of the version string
NumericPieces(p) ==
    {p.major, p.minor, p.patch}
        \cup (IF IsSome(p.pre) THEN {Unwrap(p.pre).number} ELSE {})

\* every numeric position holds plain digits denoting a value in 0..U16Max
NumbersInRange(p) ==
    \A t \in NumericPieces(p) : IsDigitText(t) /\ TextValue(t) <= U16Max

\* k zeros
Zeros(k) == [i \in 1..k |-> "0"]

\* the Display form of v with z[1..4] zeros put before major, minor, patch
\* and the pre-release number
DisplayPadded(v, z) ==
    Zeros(z[1]) \o DisplayU16(v.version.major) \o <<".">>
    \o Zeros(z[2]) \o DisplayU16(v.version.minor) \o <<".">>
    \o Zeros(z[3]) \o DisplayU16(v.version.patch)
    \o (IF IsSome(v.pre)
        THEN <<"-">> \o Unwrap(v.pre).stream \o <<".">>
             \o Zeros(z[4]) \o DisplayU16(Unwrap(v.pre).version)
        ELSE <<>>)
    \o (IF IsSome(v.build) THEN <<"+">> \o Unwrap(v.build) ELSE <<>>)

\* C13: when Version::parse returns a version for s, Display of that version
\* gives back s up to leading zeros removed from major, minor, patch and the
\* pre-release number; stream and build are reproduced as they are.
C13_RoundTrip ==
    (Ran /\ IsSome(Result))
        => \E z \in [1..4 -> 0..MaxZeros] : input = DisplayPadded(Unwrap(Result), z)

\* C14: Version::parse returns None for every string with a sign ('+' or
\* '-') or a decimal point inside a numeric component.
C14_NoSignInNumbers ==
    (Ran /\ \E t \in NumericPieces(pieces) :
                Contains(t, "+") \/ Contains(t, "-") \/ Contains(t, "."))
        => IsNone(Result)

\* C15: Version::parse returns None whenever major, minor, patch or the
\* pre-release number denotes an integer above 65535; and with every number
\* in 0..65535 (the rest of the string being in the grammar) it returns the
\* version holding exactly the values denoted, never wrapped or truncated.
C15_U16Range ==
    Ran =>
        /\ (\E t \in NumericPieces(pieces) : IsDigitText(t) /\ TextValue(t) > U16Max)
                => IsNone(Result)
        /\ (/\ NumbersInRange(pieces)
            /\ IsNone(pieces.pre) /\ IsSome(pieces.build)
                    => ~Contains(Unwrap(pieces.build), "-"))
                => /\ IsSome(Result)
                   /\ Unwrap(Result).version.major = TextValue(pieces.major)
                   /\ Unwrap(Result).version.minor = TextValue(pieces.minor)
                   /\ Unwrap(Result).version.patch = TextValue(pieces.patch)
                   /\ IsSome(Unwrap(Result).pre) = IsSome(pieces.pre)
                   /\ IsSome(pieces.pre) =>
                        Unwrap(Unwrap(Result).pre).version
                            = TextValue(Unwrap(pieces.pre).number)

\* C15 happens: a string with 65535 as major, minor, patch and pre-release
\* number was parsed into a version holding 65535 four times.
C15_Witness ==
    /\ Ran
    /\ IsSome(Result)
    /\ IsSome(pieces.pre)
    /\ \A t \in NumericPieces(pieces) : IsDigitText(t) /\ TextValue(t) = U16Max
    /\ Unwrap(Result).version = [major |-> U16Max, minor |-> U16Max, patch |-> U16Max]
    /\ Unwrap(Unwrap(Result).pre).version = U16Max

\* C16: for major.minor.patch+B and major.minor.patch-stream.number+B with
\* valid numbers, Version::parse returns a version whose build is B, whatever
\* characters B holds.
C16_BuildIsRemainder ==
    (Ran /\ IsSome(pieces.build) /\ NumbersInRange(pieces))
        => /\ IsSome(Result)
           /\ Unwrap(Result).build = pieces.build

----------------------------------------------------------------------------
(* CrateId::parse (checked under SpecCrateId).                             *)

\* the positions of the hyphens of s whose suffix Version::parse accepts
SplitPoints(s) ==
    {p \in 1..Len(s) : s[p] = "-" /\ IsSome(VersionParse(SubSeq(s, p + 1, Len(s))))}

\* the greatest element of a non-empty set of positions
Rightmost(ps) == CHOOSE p \in ps : \A q \in ps : q <= p

\* C17: CrateId::parse splits at the rightmost hyphen whose suffix
\* Version::parse accepts: the name is all that is before it, the version
\* the parse of all that is after it; with no such hyphen it returns None.
C17_RightmostHyphen ==
    Ran =>
        IF SplitPoints(input) = {} THEN IsNone(Result)
        ELSE Result =
                Some([name |-> SubSeq(input, 1, Rightmost(SplitPoints(input)) - 1),
                      version |-> Unwrap(VersionParse(
                            SubSeq(input, Rightmost(SplitPoints(input)) + 1, Len(input))))])

\* C17 happens: the string has two hyphens with an accepted suffix, and the
\* name returned holds a hyphen itself.
C17_Witness ==
    /\ Ran
    /\ Cardinality(SplitPoints(input)) = 2
    /\ IsSome(Result)
    /\ Contains(Unwrap(Result).name, "-")

\* C18: CrateId::parse never returns an identifier with an empty name.
C18_NameNotEmpty ==
    (Ran /\ IsSome(Result)) => Unwrap(Result).name # <<>>

\* C19: for a non-empty name and a version v that Version::parse produces,
\* CrateId::parse of the Display string "{name}-{v}" returns that name and v.
C19_CrateIdRoundTrip ==
    (/\ Ran
     /\ pieces.sep = <<"-">>
     /\ pieces.name # <<>>
     /\ IsSome(VersionParse(pieces.version))
     /\ input = DisplayCrateId([name |-> pieces.name,
                                version |-> Unwrap(VersionParse(pieces.version))]))
        => Result = Some([name |-> pieces.name,
                          version |-> Unwrap(VersionParse(pieces.version))])

----------------------------------------------------------------------------
(* Order of pushes (checked under Spec).                                   *)

\* what iter_ids yields after a and then b are pushed
ResolveAfter(a, b) == IterIds(PushOp(PushOp(Tracker, a), b), TestName)

\* two pre-releases of one main version and one stream
SameStream(a, b) ==
    /\ IsSome(a.pre) /\ IsSome(b.pre)
    /\ a.version = b.version
    /\ Unwrap(a.pre).stream = Unwrap(b.pre).stream

\* C20: push is not commutative: from every tracker that a main version
\* newer than its stable version and its group can still enter, there are two
\* pre-releases A and B of one main version and one stream for which pushing
\* A then B and pushing B then A make iter_ids yield different sequences.
C20_PushNotCommutative ==
    (\E m \in MainVersion :
        /\ IsNone(stable) \/ LexLess(Unwrap(stable).version, m)
        /\ IsNone(pre) \/ LexLess(Unwrap(pre), m))
        => \E a, b \in Version : SameStream(a, b) /\ ResolveAfter(a, b) # ResolveAfter(b, a)

\* C20 happens: the tracker is what pushing A then B into an empty tracker
\* leaves, and pushing B then A would have left another iter_ids sequence.
C20_Witness ==
    \E a, b \in Version :
        /\ SameStream(a, b)
        /\ Tracker = PushOp(PushOp(Default, a), b)
        /\ Resolve # IterIds(PushOp(PushOp(Default, b), a), TestName)

----------------------------------------------------------------------------
(* read_versions: the map of trackers (checked under SpecRows).            *)

\* the record is not flagged as yanked
NotYanked(r) == r.yanked # <<"t">>

\* the record leads to a push: not yanked, crate id and version both parse
Accepted(r) ==
    /\ NotYanked(r)
    /\ IsSome(ParseU64(r.crate_id))
    /\ IsSome(VersionParse(r.num))

\* the crate id of an accepted record
KeyOf(r) == Unwrap(ParseU64(r.crate_id))

\* the crate ids of the accepted records read so far
PushedKeys == {KeyOf(rows[i]) : i \in {j \in 1..Len(rows) : Accepted(rows[j])}}

\* the versions pushed for the crate id k, in the order they were read
VersionsOf(k) ==
    LET sel == SelectSeq(rows, LAMBDA r : Accepted(r) /\ KeyOf(r) = k)
    IN  [i \in 1..Len(sel) |-> Unwrap(VersionParse(sel[i].num))]

\* the tracker after the versions of seq are pushed into self, in order
RECURSIVE PushAll(_, _)
PushAll(self, seq) ==
    IF seq = <<>> THEN self ELSE PushAll(PushOp(self, Head(seq)), Tail(seq))

\* the run of the loop over the records rs, from st; a panic ends it
RECURSIVE ReadAll(_, _)
ReadAll(st, rs) ==
    IF rs = <<>> \/ st.panicked THEN st ELSE ReadAll(ReadRow(st, Head(rs)), Tail(rs))

\* the HashMap and the run as the variables hold them
Run == [result |-> result, panicked |-> panicked]

\* C21: per-name independence: the map holds a tracker exactly for the crate
\* ids that had a push, and for each of them iter_ids yields what it yields
\* for a tracker that received that id's versions alone, in their own order,
\* whatever records of other ids were read in between.
C21_PerNameIndependence ==
    /\ DOMAIN result = PushedKeys
    /\ \A k \in DOMAIN result :
            IterIds(result[k], TestName) = IterIds(PushAll(Default, VersionsOf(k)), TestName)

\* C21 happens: three records were pushed, the first and the third for one
\* crate id and the second for another, and the third push changed its tracker.
C21_Witness ==
    /\ Len(rows) = 3
    /\ \A i \in 1..3 : Accepted(rows[i])
    /\ KeyOf(rows[1]) = KeyOf(rows[3])
    /\ KeyOf(rows[2]) # KeyOf(rows[1])
    /\ result[KeyOf(rows[1])] # PushAll(Default, <<Unwrap(VersionParse(rows[1].num))>>)

\* C24: yanked rows never reach the tracker: the map (its keys and its
\* trackers) is the one read_versions builds from the records read with the
\* yanked ones removed.
C24_YankedRowsIgnored ==
    Run = ReadAll(NoRows, SelectSeq(rows, NotYanked))

\* C24 happens: a yanked record whose crate id and version both parse, for
\* a crate id that has no tracker, was read before a record that was pushed.
C24_Witness ==
    \E i, j \in 1..Len(rows) :
        /\ i < j
        /\ ~NotYanked(rows[i])
        /\ IsSome(ParseU64(rows[i].crate_id))
        /\ IsSome(VersionParse(rows[i].num))
        /\ Unwrap(ParseU64(rows[i].crate_id)) \notin DOMAIN result
        /\ Accepted(rows[j])

\* a record that is not yanked and whose version string Version::parse rejects
Rejected(r) == NotYanked(r) /\ IsNone(VersionParse(r.num))

\* C26: a parse failure is fatal for its record only: the map and the run
\* are what read_versions yields for the records read with those whose
\* version string is rejected removed.
C26_ParseFailureSkipsRecord ==
    Run = ReadAll(NoRows, SelectSeq(rows, LAMBDA r : ~Rejected(r)))

----------------------------------------------------------------------------
(* Build strings (checked under SpecTwin).                                 *)

\* the versions iter_ids yields, without their build strings
ErasedIds(t) ==
    LET r == IterIds(t, TestName)
    IN  [i \in 1..Len(r) |-> EraseBuild(r[i].version)]

\* C22: build strings never influence which versions survive: the tracker
\* and the tracker that received the same pushes without their build
\* strings have the same pre, and iter_ids yields for both the same stable
\* main version and the same streams with the same numbers in the same
\* order.
C22_BuildNeverDecides ==
    /\ pre = twin.pre
    /\ ErasedIds(Tracker) = ErasedIds(twin)

\* C22 happens: the tracker holds a stable version and two pre-release
\* entries, the stable version and one of the entries with a build string.
C22_Witness ==
    /\ IsSome(stable)
    /\ IsSome(Unwrap(stable).build)
    /\ Len(pre_by_stream) = 2
    /\ \E i \in 1..2 : IsSome(pre_by_stream[i].build)
    /\ Tracker # twin

----------------------------------------------------------------------------
(* Frame properties of push and invariants of the tracker (checked under   *)
(* Spec).                                                                  *)

\* C23: a stable push below the pre-release group keeps the group: for a
\* stable V newer than the current stable version and below pre, stable
\* becomes (V, build of V), pre and pre_by_stream are unchanged, and
\* iter_ids yields V followed by the pre-release identifiers as they were.
C23_StableBelowGroupKeepsGroup ==
    \A arg \in Version :
        (/\ IsNone(arg.pre)
         /\ NewerThanStable(arg)
         /\ IsSome(pre)
         /\ LexLess(arg.version, Unwrap(pre)))
        => /\ After(arg) = [stable |-> Some([version |-> arg.version, build |-> arg.build]),
                            pre |-> pre,
                            pre_by_stream |-> pre_by_stream]
           /\ IterIds(After(arg), TestName)
                = <<IdOf(arg)>> \o IterIds([Tracker EXCEPT !.stable = None], TestName)

\* C23 happens: a stable version is recorded, the group has two entries, and
\* a stable version between the two can be pushed.
C23_Witness ==
    /\ IsSome(stable)
    /\ Len(pre_by_stream) = 2
    /\ \E arg \in Version :
            /\ IsNone(arg.pre)
            /\ NewerThanStable(arg)
            /\ LexLess(arg.version, Unwrap(pre))
            /\ After(arg) # Tracker

\* C25: an older pre-release group is ignored: a pre-release whose main
\* version is below pre (and above the stable version, if any) leaves
\* stable, pre and pre_by_stream unchanged.
C25_OlderGroupIgnored ==
    \A arg \in Version :
        (/\ IsSome(arg.pre)
         /\ IsSome(pre)
         /\ LexLess(arg.version, Unwrap(pre))
         /\ NewerThanStable(arg))
        => After(arg) = Tracker

\* C25 happens: a stable version is recorded and a pre-release between it
\* and the group, of a stream the group does not hold, can be pushed.
C25_Witness ==
    /\ IsSome(stable)
    /\ IsSome(pre)
    /\ \E arg \in Version :
            /\ IsSome(arg.pre)
            /\ LexLess(arg.version, Unwrap(pre))
            /\ NewerThanStable(arg)
            /\ PositionsOf(pre_by_stream, Unwrap(arg.pre).stream) = {}

\* C27: when stable and pre are both present, pre is strictly greater than
\* the main version of stable; so every pre-release identifier iter_ids
\* yields has a main version strictly above that of the stable identifier.
C27_PreStrictlyAboveStable ==
    /\ (IsSome(pre) /\ IsSome(stable)) => LexLess(Unwrap(stable).version, Unwrap(pre))
    /\ IsSome(stable) =>
            \A i \in 1..Len(Resolve) :
                IsSome(Resolve[i].version.pre)
                    => LexLess(Unwrap(stable).version, Resolve[i].version.version)

\* C27 happens: a stable version and a group are recorded, and pushing the
\* stable release of the group's main version would clear the group.
C27_Witness ==
    /\ IsSome(stable)
    /\ IsSome(pre)
    /\ \E arg \in Version :
            /\ IsNone(arg.pre)
            /\ arg.version = Unwrap(pre)
            /\ IsNone(After(arg).pre)

\* C28: pre is absent exactly when pre_by_stream is empty; so iter_ids
\* yields one identifier for every entry of pre_by_stream, and none from a
\* list whose group is gone.
C28_PreAbsentIffListEmpty ==
    /\ IsNone(pre) <=> pre_by_stream = <<>>
    /\ Len(Resolve) = Len(stable) + Len(pre_by_stream)

\* C28 happens: the group has two entries and no stable version is
\* recorded, and a stable release above the group would clear pre and the
\* list together.
C28_Witness ==
    /\ IsNone(stable)
    /\ Len(pre_by_stream) = 2
    /\ \E arg \in Version :
            /\ IsNone(arg.pre)
            /\ LexLess(Unwrap(pre), arg.version)
            /\ After(arg).pre_by_stream = <<>>

----------------------------------------------------------------------------
(* All the orders of a bag of pushes (checked under SpecBag).              *)

\* the sequences that hold the versions of the bag, each as often as the bag
Orders(bag) ==
    {s \in [1..BagCardinality(bag) -> BagToSet(bag)] :
        \A v \in BagToSet(bag) : Cardinality({i \in DOMAIN s : s[i] = v}) = CopiesIn(v, bag)}

\* what of a tracker does not depend on builds and on the order of entries
Outline(t) ==
    [stable |-> IF IsSome(t.stable) THEN Some(Unwrap(t.stable).version) ELSE None,
     pre |-> t.pre,
     entries |-> {t.pre_by_stream[i].pre : i \in 1..Len(t.pre_by_stream)}]

\* C29: order-independence up to build and entry order: every order of
\* pushing the versions pushed so far into an empty tracker ends with the
\* stable main version, the pre and the set of (stream, number) pairs of
\* the tracker.
C29_OrderIndependentOutline ==
    \A s \in Orders(pushed) : Outline(PushAll(Default, s)) = Outline(Tracker)

\* C29 happens: two versions were pushed and the other order would have
\* left another tracker, with two entries in pre_by_stream.
C29_Witness ==
    /\ BagCardinality(pushed) = 2
    /\ Len(pre_by_stream) = 2
    /\ \E s \in Orders(pushed) : PushAll(Default, s) # Tracker

----------------------------------------------------------------------------
(* The groups discarded (checked under SpecDiscard).                       *)

\* C30: a discarded group never comes back: after every push, pre, if
\* present, is strictly above every main version pre held and lost; and
\* stable changes only to a strictly greater main version, never to absent.
C30_DiscardedNeverReturns ==
    [][/\ IsSome(pre') => \A v \in discarded' : LexLess(v, Unwrap(pre'))
       /\ stable' # stable =>
            /\ IsSome(stable')
            /\ IsSome(stable) => LexLess(Unwrap(stable).version, Unwrap(stable').version)]_vars

\* C30 happens: a group was discarded, a newer one is recorded, and a
\* pre-release of a discarded main version above the stable version is
\* pushed without effect.
C30_Witness ==
    /\ discarded # {}
    /\ IsSome(pre)
    /\ IsSome(stable)
    /\ \E arg \in Version :
            /\ IsSome(arg.pre)
            /\ arg.version \in discarded
            /\ NewerThanStable(arg)
            /\ After(arg) = Tracker

----------------------------------------------------------------------------
(* The loop of check_crate and the counters of main (checked under         *)
(* SpecCheck and SpecCheckLive).                                           *)

\* the number of flags of check_crate that are set
FlagsSet ==
    (IF failed_parse_manifest THEN 1 ELSE 0) + (IF multiple_crates THEN 1 ELSE 0)

\* compile_crate was called at most three times for the crate, and inside
\* the loop every call made so far was answered by setting one flag
RetryBounded ==
    /\ calls <= 3
    /\ pc = "loop" => calls = FlagsSet

\* a turn of the loop is one more call; if it returns a recoverable outcome
\* whose flag is set already, check_crate returns Ok with that outcome's
\* message as err_msg and nothing else
SecondOccurrenceEnds ==
    pc = "loop" =>
        /\ calls' = calls + 1
        /\ ((Unwrap(outcome').tag = "FailedParseManifest" /\ failed_parse_manifest)
            \/ (Unwrap(outcome').tag = "MultipleCrates" /\ multiple_crates))
           => /\ pc' = "main"
              /\ output' = Some([DefaultOutput EXCEPT !.err_msg = Unwrap(outcome').msg])

\* C31: the retry loop of check_crate is bounded: each of
\* FailedParseManifest and MultipleCrates triggers at most one retry, a
\* second occurrence of either ends the loop with its message as err_msg,
\* compile_crate is called at most three times per crate, and the loop is
\* always left, whatever compile_crate returns.
C31_RetryLoopBounded ==
    /\ []RetryBounded
    /\ [][SecondOccurrenceEnds]_vars
    /\ (pc = "loop") ~> (pc = "main")

\* C31 happens: both outcomes were retried once and the third call returned
\* one of them again, which check_crate returned as err_msg.
C31_Witness ==
    /\ pc = "main"
    /\ calls = 3
    /\ failed_parse_manifest
    /\ multiple_crates
    /\ Unwrap(outcome).tag \in Recoverable
    /\ Unwrap(output).err_msg = Unwrap(outcome).msg

\* the sum of the numbers of a sequence
RECURSIVE SumSeq(_)
SumSeq(seq) == IF seq = <<>> THEN 0 ELSE Head(seq) + SumSeq(Tail(seq))

\* the sum of the counters of a map of lints
RECURSIVE SumCounters(_, _)
SumCounters(map, names) ==
    IF names = {} THEN 0
    ELSE LET l == CHOOSE x \in names : TRUE
         IN  map[l] + SumCounters(map, names \ {l})

\* C32: the lint counters agree with the report: once the summary is
\* written, the sum of the counters it wrote is the sum of the numbers of
\* warnings reported for the crates.
C32_CountersAgreeWithReport ==
    pc = "done" => SumCounters(Unwrap(summary), Lints) = SumSeq(report)

====
